---- MODULE Spec2Model ----
(***************************************************************************)
(* State-machine model of the tellit Anchor program                        *)
(* (anchor_project/tellit/programs/tellit/src/lib.rs): the Config          *)
(* singleton, the content-addressed Note accounts, the Reaction accounts   *)
(* and the seven instructions.  Every instruction is one atomic step: the  *)
(* account constraints of its #[derive(Accounts)] struct are validated     *)
(* first, then the handler body runs; an instruction that returns an error *)
(* persists nothing (the runtime discards the transaction's writes).       *)
(***************************************************************************)
EXTENDS FiniteSets, Integers, Sequences, TLC

VARIABLES config, notes, reactions, now, last

vars == <<config, notes, reactions, now, last>>

store == <<config, notes, reactions>>

(* ---------------------------- bounds ----------------------------------- *)

\* width of the unsigned counters (u64 in the program)
CounterWidth == 2

\* largest value of the ledger clock
MaxTime == 1

\* cap on simultaneously live notes in the specifications that cap them
MaxLive == 2

\* longest title / content drawn in the fingerprint specification
MaxLen == 1

(* ---------------------------- constants -------------------------------- *)

TITLE_MAX == 50

CONTENT_MAX == 300

U64_MAX == 2 ^ CounterWidth - 1

DefaultPubkey == "0"

Keys == {"A", "B", "C"}

ReactionTypes == {"None", "Like", "Dislike"}

Rep(ch, n) == [i \in 1..n |-> ch]

(* ---------------------------- pure helpers ----------------------------- *)

\* addition that wraps at the width instead of clamping
saturating_add_Wrap(x, y) == (x + y) % (U64_MAX + 1)

saturating_add(x, y) == IF x + y > U64_MAX THEN U64_MAX ELSE x + y

saturating_sub(x, y) == IF x - y < 0 THEN 0 ELSE x - y

\* The hasher is fed title, b":" and content in turn, so the digest is the
\* SHA-256 of the byte stream title ++ ":" ++ content.  SHA-256 is modelled
\* as injective on that stream: the digest is the stream itself.
create_content_hash(title, content) == title \o <<":">> \o content

\* seeds = [b"note", author, receiver, create_content_hash(title, content)]
NoteAddress(author, receiver, title, content) ==
    <<"note", author, receiver, create_content_hash(title, content)>>

\* seeds = [b"reaction", note.key(), reactor.key()]
ReactionAddress(noteAddr, reactor) == <<"reaction", noteAddr, reactor>>

\* The seeds constraint of every later instruction re-derives the address
\* from the fields stored in the note and compares it with the account key.
NoteSeedsOk(addr) ==
    addr = NoteAddress(notes[addr].author, notes[addr].receiver,
                       notes[addr].title, notes[addr].content)

Live == DOMAIN notes

NumLive == Cardinality(Live)

(* Order of the checks of one instruction, as Anchor generates them:       *)
(*   1. every account without `init` is deserialized, in field order       *)
(*      (an absent account fails with AccountNotInitialized);              *)
(*   2. `init` accounts are created (the address must be the derived one   *)
(*      and must be unoccupied, else the allocation fails);                *)
(*   3. the remaining constraints, per account: seeds, then `constraint`;  *)
(*   4. the handler body, with its require! checks in program order;       *)
(*   5. `close` on exit.                                                   *)
(* The result operators below return the first check that fails.  The     *)
(* stored bump is a function of the seeds and is left out: a seeds check   *)
(* with the stored bump passes exactly when the re-derived seeds are those *)
(* the account was created with.                                           *)

(* ---------------------------- initial state ---------------------------- *)

Init ==
    /\ config = [initialized |-> FALSE, authority |-> DefaultPubkey, note_count |-> 0]
    /\ notes = [a \in {} |-> 0]
    /\ reactions = [a \in {} |-> 0]
    /\ now = 0
    /\ last = [op |-> "none", err |-> "Ok"]

(* ---------------------------- initialize ------------------------------- *)

\* initialize that re-creates an existing Config (init_if_needed style)
InitializeResult_Always(authority) == "Ok"

InitializeResult(authority) ==
    IF config.initialized THEN "AccountAlreadyInUse" ELSE "Ok"

Initialize(authority) ==
    LET res == InitializeResult(authority) IN
    /\ last' = [op |-> "initialize", err |-> res]
    /\ IF res = "Ok"
       THEN config' = [initialized |-> TRUE, authority |-> authority, note_count |-> 0]
       ELSE UNCHANGED config
    /\ UNCHANGED <<notes, reactions, now>>

(* ---------------------------- send_note -------------------------------- *)

\* send_note that does not notice an occupied address
SendNoteResult_NoOccupancy(author, receiver, title, content) ==
    IF ~config.initialized THEN "AccountNotInitialized"
    ELSE IF author = receiver THEN "CannotSendToSelf"
    ELSE IF Len(title) > TITLE_MAX THEN "TitleTooLong"
    ELSE IF Len(content) > CONTENT_MAX THEN "ContentTooLong"
    ELSE "Ok"

\* The handler's last require (note.author == Pubkey::default(), else
\* NoteAlreadyExists) reads the account `init` has just created, whose author
\* is still the default key: it cannot fail.
SendNoteResult(author, receiver, title, content) ==
    IF ~config.initialized THEN "AccountNotInitialized"
    ELSE IF NoteAddress(author, receiver, title, content) \in DOMAIN notes
         THEN "AccountAlreadyInUse"
    ELSE IF author = receiver THEN "CannotSendToSelf"
    ELSE IF Len(title) > TITLE_MAX THEN "TitleTooLong"
    ELSE IF Len(content) > CONTENT_MAX THEN "ContentTooLong"
    ELSE "Ok"

\* send_note that leaves created_at at the zero of the fresh account
NewNote_StaleCreated(author, receiver, title, content, current_time) ==
    [author |-> author, receiver |-> receiver, title |-> title,
     content |-> content, likes |-> 0, dislikes |-> 0,
     created_at |-> 0, updated_at |-> current_time]

NewNote(author, receiver, title, content, current_time) ==
    [author |-> author, receiver |-> receiver, title |-> title,
     content |-> content, likes |-> 0, dislikes |-> 0,
     created_at |-> current_time, updated_at |-> current_time]

SendNoteCount(n) == saturating_add(n, 1)

SendNote(author, receiver, title, content) ==
    LET res == SendNoteResult(author, receiver, title, content)
        addr == NoteAddress(author, receiver, title, content) IN
    /\ last' = [op |-> "send_note", err |-> res]
    /\ IF res = "Ok"
       THEN /\ notes' = [a \in DOMAIN notes \cup {addr} |->
                           IF a = addr
                           THEN NewNote(author, receiver, title, content, now)
                           ELSE notes[a]]
            /\ config' = [config EXCEPT !.note_count = SendNoteCount(@)]
       ELSE UNCHANGED <<config, notes>>
    /\ UNCHANGED <<reactions, now>>

(* ---------------------------- edit_note -------------------------------- *)

EditNoteResult(author, addr, new_title, new_content) ==
    IF addr \notin DOMAIN notes THEN "AccountNotInitialized"
    ELSE IF ~NoteSeedsOk(addr) THEN "ConstraintSeeds"
    ELSE IF notes[addr].author # author THEN "NotAuthorized"
    ELSE IF Len(new_title) > TITLE_MAX THEN "TitleTooLong"
    ELSE IF Len(new_content) > CONTENT_MAX THEN "ContentTooLong"
    ELSE "Ok"

\* edit_note that rewrites the whole record as send_note does
EditedNote_ResetTallies(note, new_title, new_content, current_time) ==
    [note EXCEPT !.title = new_title, !.content = new_content,
                 !.updated_at = current_time, !.likes = 0, !.dislikes = 0]

EditedNote(note, new_title, new_content, current_time) ==
    [note EXCEPT !.title = new_title, !.content = new_content,
                 !.updated_at = current_time]

EditNote(author, addr, new_title, new_content) ==
    LET res == EditNoteResult(author, addr, new_title, new_content) IN
    /\ last' = [op |-> "edit_note", err |-> res]
    /\ IF res = "Ok"
       THEN notes' = [notes EXCEPT ![addr] = EditedNote(@, new_title, new_content, now)]
       ELSE UNCHANGED notes
    /\ UNCHANGED <<config, reactions, now>>

(* ---------------------------- delete_note ------------------------------ *)

DeleteNoteResult(deleter, addr) ==
    IF addr \notin DOMAIN notes THEN "AccountNotInitialized"
    ELSE IF ~config.initialized THEN "AccountNotInitialized"
    ELSE IF ~NoteSeedsOk(addr) THEN "ConstraintSeeds"
    ELSE IF ~(deleter = notes[addr].author \/ deleter = notes[addr].receiver)
         THEN "NotAuthorized"
    ELSE "Ok"

\* delete_note that forgets the counter
DeleteNoteCount_Keep(n) == n

DeleteNoteCount(n) == saturating_sub(n, 1)

\* close that also closes the Reaction accounts pointing at the note
ReactionsAfterClose_Cascade(addr) ==
    [ra \in {x \in DOMAIN reactions : reactions[x].note # addr} |-> reactions[ra]]

\* `close = deleter` closes the note account and no other account
ReactionsAfterClose(addr) == reactions

DeleteNote(deleter, addr) ==
    LET res == DeleteNoteResult(deleter, addr) IN
    /\ last' = [op |-> "delete_note", err |-> res]
    /\ IF res = "Ok"
       THEN /\ notes' = [a \in DOMAIN notes \ {addr} |-> notes[a]]
            /\ config' = [config EXCEPT !.note_count = DeleteNoteCount(@)]
            /\ reactions' = ReactionsAfterClose(addr)
       ELSE UNCHANGED <<config, notes, reactions>>
    /\ UNCHANGED now

(* ---------------------------- react_to_note ---------------------------- *)

\* react whose Reaction account is init_if_needed instead of init
ReactToNoteResult_IfNeeded(reactor, addr, racct, reaction_type) ==
    IF addr \notin DOMAIN notes THEN "AccountNotInitialized"
    ELSE IF racct # ReactionAddress(addr, reactor) THEN "ConstraintSeeds"
    ELSE IF ~NoteSeedsOk(addr) THEN "ConstraintSeeds"
    ELSE IF reaction_type = "None" THEN "InvalidReactionType"
    ELSE "Ok"

\* A react with ReactionType::None fails in the handler, after the Reaction
\* account was created; the failed transaction keeps none of it.
ReactToNoteResult(reactor, addr, racct, reaction_type) ==
    IF addr \notin DOMAIN notes THEN "AccountNotInitialized"
    ELSE IF racct # ReactionAddress(addr, reactor) THEN "ConstraintSeeds"
    ELSE IF racct \in DOMAIN reactions THEN "AccountAlreadyInUse"
    ELSE IF ~NoteSeedsOk(addr) THEN "ConstraintSeeds"
    ELSE IF reaction_type = "None" THEN "InvalidReactionType"
    ELSE "Ok"

ReactTally(note, reaction_type) ==
    IF reaction_type = "Like"
    THEN [note EXCEPT !.likes = saturating_add(@, 1)]
    ELSE [note EXCEPT !.dislikes = saturating_add(@, 1)]

ReactToNote(reactor, addr, racct, reaction_type) ==
    LET res == ReactToNoteResult(reactor, addr, racct, reaction_type) IN
    /\ last' = [op |-> "react_to_note", err |-> res]
    /\ IF res = "Ok"
       THEN /\ notes' = [notes EXCEPT ![addr] = ReactTally(@, reaction_type)]
            /\ reactions' = [a \in DOMAIN reactions \cup {racct} |->
                               IF a = racct
                               THEN [reactor |-> reactor, note |-> addr,
                                     reaction_type |-> reaction_type]
                               ELSE reactions[a]]
       ELSE UNCHANGED <<notes, reactions>>
    /\ UNCHANGED <<config, now>>

(* ------------------- remove_reaction / change_reaction ----------------- *)

\* account validation shared by RemoveReaction and ChangeReaction
ReactionAccountsResult(reactor, addr, racct) ==
    IF addr \notin DOMAIN notes THEN "AccountNotInitialized"
    ELSE IF racct \notin DOMAIN reactions THEN "AccountNotInitialized"
    ELSE IF ~NoteSeedsOk(addr) THEN "ConstraintSeeds"
    ELSE IF racct # ReactionAddress(addr, reactor) THEN "ConstraintSeeds"
    ELSE IF reactions[racct].reactor # reactor THEN "NotAuthorized"
    ELSE "Ok"

\* "Remove existing reaction": the guarded decrement of the stored type
UndoGuardOk(note, old_type) ==
    CASE old_type = "Like" -> note.likes > 0
      [] old_type = "Dislike" -> note.dislikes > 0
      [] OTHER -> TRUE

\* reversal that decrements likes whatever the stored type was
UndoTally_AlwaysLikes(note, old_type) ==
    CASE old_type \in {"Like", "Dislike"} -> [note EXCEPT !.likes = saturating_sub(@, 1)]
      [] OTHER -> note

UndoTally(note, old_type) ==
    CASE old_type = "Like" -> [note EXCEPT !.likes = saturating_sub(@, 1)]
      [] old_type = "Dislike" -> [note EXCEPT !.dislikes = saturating_sub(@, 1)]
      [] OTHER -> note

\* "Add new reaction" of change_reaction
\* "Add new reaction" that credits the other counter
ApplyTally_Swapped(note, new_type) ==
    CASE new_type = "Like" -> [note EXCEPT !.dislikes = saturating_add(@, 1)]
      [] new_type = "Dislike" -> [note EXCEPT !.likes = saturating_add(@, 1)]
      [] OTHER -> note

ApplyTally(note, new_type) ==
    CASE new_type = "Like" -> [note EXCEPT !.likes = saturating_add(@, 1)]
      [] new_type = "Dislike" -> [note EXCEPT !.dislikes = saturating_add(@, 1)]
      [] OTHER -> note

RemoveReactionResult(reactor, addr, racct) ==
    LET acc == ReactionAccountsResult(reactor, addr, racct) IN
    IF acc # "Ok" THEN acc
    ELSE IF reactions[racct].reaction_type = "None" THEN "InvalidReactionType"
    ELSE IF ~UndoGuardOk(notes[addr], reactions[racct].reaction_type)
         THEN "InvalidReactionCount"
    ELSE "Ok"

RemoveReaction(reactor, addr, racct) ==
    LET res == RemoveReactionResult(reactor, addr, racct) IN
    /\ last' = [op |-> "remove_reaction", err |-> res]
    /\ IF res = "Ok"
       THEN /\ notes' = [notes EXCEPT ![addr] = UndoTally(@, reactions[racct].reaction_type)]
            /\ reactions' = [reactions EXCEPT ![racct].reaction_type = "None"]
       ELSE UNCHANGED <<notes, reactions>>
    /\ UNCHANGED <<config, now>>

\* change_reaction without the require! guards of its first match
ChangeReactionResult_NoGuard(reactor, addr, racct, new_reaction_type) ==
    ReactionAccountsResult(reactor, addr, racct)

ChangeReactionResult(reactor, addr, racct, new_reaction_type) ==
    LET acc == ReactionAccountsResult(reactor, addr, racct) IN
    IF acc # "Ok" THEN acc
    ELSE IF ~UndoGuardOk(notes[addr], reactions[racct].reaction_type)
         THEN "InvalidReactionCount"
    ELSE "Ok"

ChangeReaction(reactor, addr, racct, new_reaction_type) ==
    LET res == ChangeReactionResult(reactor, addr, racct, new_reaction_type) IN
    /\ last' = [op |-> "change_reaction", err |-> res]
    /\ IF res = "Ok"
       THEN /\ notes' = [notes EXCEPT ![addr] =
                           ApplyTally(UndoTally(@, reactions[racct].reaction_type),
                                      new_reaction_type)]
            /\ reactions' = [reactions EXCEPT ![racct].reaction_type = new_reaction_type]
       ELSE UNCHANGED <<notes, reactions>>
    /\ UNCHANGED <<config, now>>

(* ---------------------------- ledger clock ----------------------------- *)

\* Clock::get()?.unix_timestamp is read from the ledger; it never goes back.
Tick ==
    /\ now < MaxTime
    /\ now' = now + 1
    /\ UNCHANGED <<config, notes, reactions, last>>

(* ---------------------------- inputs ----------------------------------- *)

Deployers == {"A"}

Senders == {"A"}

Receivers == {"A", "B"}

Reactors == {"C"}

Titles == {<<>>, <<":">>, Rep("a", TITLE_MAX + 1)}

Contents == {<<>>, Rep("a", CONTENT_MAX + 1)}

NoteAddrs ==
    {NoteAddress(a, r, t, c) : a \in Senders, r \in Receivers \ {"A"},
                               t \in Titles \ {Rep("a", TITLE_MAX + 1)},
                               c \in Contents \ {Rep("a", CONTENT_MAX + 1)}}

ReactionAddrs == {ReactionAddress(n, r) : n \in NoteAddrs, r \in Reactors}

Next ==
    \/ \E k \in Deployers : Initialize(k)
    \/ \E a \in Senders, r \in Receivers, t \in Titles, c \in Contents :
          SendNote(a, r, t, c)
    \/ \E k \in Keys, n \in NoteAddrs, t \in Titles, c \in Contents :
          EditNote(k, n, t, c)
    \/ \E k \in Keys, n \in NoteAddrs : DeleteNote(k, n)
    \/ \E k \in Reactors, n \in NoteAddrs, ra \in ReactionAddrs, ty \in ReactionTypes :
          ReactToNote(k, n, ra, ty)
    \/ \E k \in Reactors, n \in NoteAddrs, ra \in ReactionAddrs : RemoveReaction(k, n, ra)
    \/ \E k \in Reactors, n \in NoteAddrs, ra \in ReactionAddrs, ty \in ReactionTypes :
          ChangeReaction(k, n, ra, ty)

\* Every instruction, with every kind of failing input; all of them run
\* within one tick of the ledger clock.
Spec == Init /\ [][Next]_vars

ValidTitles == {t \in Titles : Len(t) <= TITLE_MAX}

ValidContents == {c \in Contents : Len(c) <= CONTENT_MAX}

(* ------------- every instruction, with the ledger clock running ------- *)

ClockTitles == ValidTitles

ClockNoteAddrs == {NoteAddress("A", "B", t, <<>>) : t \in ClockTitles}

NextClock ==
    \/ \E k \in Deployers : Initialize(k)
    \/ \E t \in ClockTitles : SendNote("A", "B", t, <<>>)
    \/ \E k \in Keys, n \in ClockNoteAddrs, t \in ClockTitles : EditNote(k, n, t, <<>>)
    \/ \E k \in Keys, n \in ClockNoteAddrs : DeleteNote(k, n)
    \/ \E k \in Reactors, n \in ClockNoteAddrs, ty \in ReactionTypes :
          ReactToNote(k, n, ReactionAddress(n, k), ty)
    \/ \E k \in Reactors, n \in ClockNoteAddrs : RemoveReaction(k, n, ReactionAddress(n, k))
    \/ \E k \in Reactors, n \in ClockNoteAddrs, ty \in ReactionTypes :
          ChangeReaction(k, n, ReactionAddress(n, k), ty)
    \/ Tick

SpecClock == Init /\ [][NextClock]_vars

(* ------------- reactions only: no edit_note, no delete_note ------------ *)

ReactNoteAddrs == {NoteAddress("A", "B", <<>>, <<>>)}

ReactReactionAddrs == {ReactionAddress(n, r) : n \in ReactNoteAddrs, r \in Keys}

NextReact ==
    \/ \E k \in Deployers : Initialize(k)
    \/ SendNote("A", "B", <<>>, <<>>)
    \/ \E k \in Keys, n \in ReactNoteAddrs, ra \in ReactReactionAddrs, ty \in ReactionTypes :
          ReactToNote(k, n, ra, ty)
    \/ \E k \in Keys, n \in ReactNoteAddrs, ra \in ReactReactionAddrs :
          RemoveReaction(k, n, ra)
    \/ \E k \in Keys, n \in ReactNoteAddrs, ra \in ReactReactionAddrs, ty \in ReactionTypes :
          ChangeReaction(k, n, ra, ty)

SpecReact == Init /\ [][NextReact]_vars

(* ------------- every instruction, any key may deploy ------------------- *)

NextConfig ==
    \/ \E k \in Keys : Initialize(k)
    \/ \E t \in ClockTitles : SendNote("A", "B", t, <<>>)
    \/ \E k \in Keys, n \in ClockNoteAddrs, t \in ClockTitles : EditNote(k, n, t, <<>>)
    \/ \E k \in Keys, n \in ClockNoteAddrs : DeleteNote(k, n)
    \/ \E k \in Reactors, n \in ClockNoteAddrs, ty \in ReactionTypes :
          ReactToNote(k, n, ReactionAddress(n, k), ty)
    \/ \E k \in Reactors, n \in ClockNoteAddrs : RemoveReaction(k, n, ReactionAddress(n, k))
    \/ \E k \in Reactors, n \in ClockNoteAddrs, ty \in ReactionTypes :
          ChangeReaction(k, n, ReactionAddress(n, k), ty)

SpecConfig == Init /\ [][NextConfig]_vars

(* ------------- more notes and more reactors than a counter holds ------- *)

SatKeys == {"A", "B", "C", "D"}

SatPairs == {<<"A", "B">>, <<"A", "C">>, <<"A", "D">>, <<"B", "A">>, <<"B", "C">>}

\* the note that collects the reactions; the other notes come and go
SatReactNote == NoteAddress("A", "B", <<>>, <<>>)

NextSat ==
    \/ \E k \in Deployers : Initialize(k)
    \/ \E p \in SatPairs : SendNote(p[1], p[2], <<>>, <<>>)
    \/ \E p \in SatPairs \ {<<"A", "B">>} :
          DeleteNote(p[1], NoteAddress(p[1], p[2], <<>>, <<>>))
    \/ \E k \in SatKeys, ty \in {"Like", "Dislike"} :
          ReactToNote(k, SatReactNote, ReactionAddress(SatReactNote, k), ty)
    \/ \E k \in SatKeys :
          ChangeReaction(k, SatReactNote, ReactionAddress(SatReactNote, k), "Like")

SpecSat == Init /\ [][NextSat]_vars

(* ------------- send_note at the length bounds, clock running ---------- *)

SendTitles == {<<>>, Rep("a", TITLE_MAX), Rep("a", TITLE_MAX + 1)}

SendContents == {<<>>, Rep("a", CONTENT_MAX), Rep("a", CONTENT_MAX + 1)}

SendNoteAddrs ==
    {NoteAddress("A", "B", t, c) :
        t \in {x \in SendTitles : Len(x) <= TITLE_MAX},
        c \in {x \in SendContents : Len(x) <= CONTENT_MAX}}

NextSend ==
    \/ \E k \in Deployers : Initialize(k)
    \/ \E a \in Senders, r \in Receivers, t \in SendTitles, c \in SendContents :
          SendNote(a, r, t, c)
    \/ \E k \in Keys, n \in SendNoteAddrs : DeleteNote(k, n)
    \/ Tick

SpecSend == Init /\ [][NextSend]_vars

(* ------------- fingerprints: every short string over {a, :} ------------ *)

Alphabet == {"a", ":"}

RECURSIVE StrsOfLen(_)
StrsOfLen(k) ==
    IF k = 0 THEN {<<>>}
    ELSE {Append(s, ch) : s \in StrsOfLen(k - 1), ch \in Alphabet}

HashStrings == UNION {StrsOfLen(k) : k \in 0..MaxLen}

HashNoteAddrs == {NoteAddress("A", "B", t, c) : t \in HashStrings, c \in HashStrings}

NextHash ==
    \/ \E k \in Deployers : Initialize(k)
    \/ \E t \in HashStrings, c \in HashStrings :
          NumLive < MaxLive /\ SendNote("A", "B", t, c)
    \/ \E k \in Keys, n \in HashNoteAddrs : DeleteNote(k, n)
    \/ Tick

SpecHash == Init /\ [][NextHash]_vars

(* ======================= properties of the program ===================== *)

LikeRecords(n) ==
    {ra \in DOMAIN reactions :
        reactions[ra].note = n /\ reactions[ra].reaction_type = "Like"}

DislikeRecords(n) ==
    {ra \in DOMAIN reactions :
        reactions[ra].note = n /\ reactions[ra].reaction_type = "Dislike"}

\* C1: tally invariant.  In every reachable state every live note has likes
\* equal to the number of Reaction records that reference its address with
\* type Like, and dislikes equal to the number with type Dislike.
C1_TallyInvariant ==
    \A n \in DOMAIN notes :
        /\ notes[n].likes = Cardinality(LikeRecords(n))
        /\ notes[n].dislikes = Cardinality(DislikeRecords(n))

\* C2: once Config is initialized, note_count equals the number of live
\* notes (the counter maximum is not reached: there are fewer addresses).
C2_NoteCountIsLiveNotes ==
    /\ config.initialized => config.note_count = NumLive
    /\ ~config.initialized => NumLive = 0

C2_Witness ==
    /\ last = [op |-> "delete_note", err |-> "Ok"]
    /\ NumLive = 1
    /\ config.note_count = 1

\* C3: delete_note by the stored author or the stored receiver of any live
\* note succeeds, the note becomes absent and note_count drops by exactly 1.
C3_DeleteByPartySucceeds ==
    [][\A k \in Keys, n \in NoteAddrs :
          (/\ n \in DOMAIN notes
           /\ k \in {notes[n].author, notes[n].receiver}
           /\ last'.op = "delete_note"
           /\ DeleteNote(k, n))
          => (/\ last'.err = "Ok"
              /\ n \notin DOMAIN notes'
              /\ config'.note_count = config.note_count - 1)]_vars

\* C4: a live note (in particular an edited one) is still resolved at its
\* address by every later operation: edit_note by the author, react by a
\* reactor without a Reaction record, and change_reaction / remove_reaction
\* by a reactor with a record succeed whenever their own preconditions hold.
C4_EditedNoteStillResolves ==
    \A n \in DOMAIN notes :
        /\ \A t \in ValidTitles, c \in ValidContents :
              EditNoteResult(notes[n].author, n, t, c) = "Ok"
        /\ \A r \in Reactors :
              LET ra == ReactionAddress(n, r) IN
              IF ra \notin DOMAIN reactions
              THEN ReactToNoteResult(r, n, ra, "Like") = "Ok"
              ELSE UndoGuardOk(notes[n], reactions[ra].reaction_type)
                   => /\ ChangeReactionResult(r, n, ra, "Dislike") = "Ok"
                      /\ reactions[ra].reaction_type # "None"
                         => RemoveReactionResult(r, n, ra) = "Ok"

\* C5: for a fixed author and receiver, a (title, content) pair distinct
\* from that of a live note has a distinct address, so sending it succeeds
\* and both notes are live afterwards.
C5_DistinctPairsDistinctNotes ==
    [][\A t1 \in HashStrings, c1 \in HashStrings, t2 \in HashStrings, c2 \in HashStrings :
          (/\ <<t1, c1>> # <<t2, c2>>
           /\ NoteAddress("A", "B", t1, c1) \in DOMAIN notes
           /\ notes[NoteAddress("A", "B", t1, c1)].title = t1
           /\ notes[NoteAddress("A", "B", t1, c1)].content = c1
           /\ last'.op = "send_note"
           /\ SendNote("A", "B", t2, c2))
          => (/\ last'.err = "Ok"
              /\ NoteAddress("A", "B", t1, c1) # NoteAddress("A", "B", t2, c2)
              /\ {NoteAddress("A", "B", t1, c1), NoteAddress("A", "B", t2, c2)}
                     \subseteq DOMAIN notes')]_vars

\* C6: at most one live note per (author, receiver, title, content).
C6_OneNotePerContent ==
    \A n1 \in DOMAIN notes, n2 \in DOMAIN notes :
        (/\ notes[n1].author = notes[n2].author
         /\ notes[n1].receiver = notes[n2].receiver
         /\ notes[n1].title = notes[n2].title
         /\ notes[n1].content = notes[n2].content)
        => n1 = n2

\* C7: send_note for an (author, receiver, title, content) whose note is live
\* fails and changes nothing; the successful send before it added exactly 1
\* to note_count, so the two calls together add 1, not 2.
C7_SecondSendFails ==
    [][\A a \in Senders, r \in Receivers, t \in Titles, c \in Contents :
          (last'.op = "send_note" /\ SendNote(a, r, t, c))
          => IF NoteAddress(a, r, t, c) \in DOMAIN notes
             THEN last'.err # "Ok" /\ UNCHANGED store
             ELSE last'.err = "Ok"
                  => /\ config'.note_count = config.note_count + 1
                     /\ NoteAddress(a, r, t, c) \in DOMAIN notes']_vars

C7_Witness ==
    /\ last = [op |-> "send_note", err |-> "AccountAlreadyInUse"]
    /\ config.note_count = 1
    /\ NumLive = 1

\* C8: for a note that is sent once and then only reacted to (react,
\* change_reaction, remove_reaction by distinct reactors, successful or not),
\* likes is the number of reactors whose stored type is Like and dislikes the
\* number whose stored type is Dislike.
C8_TalliesCountReactors ==
    \A n \in DOMAIN notes :
        /\ notes[n].likes =
              Cardinality({r \in Keys :
                  /\ ReactionAddress(n, r) \in DOMAIN reactions
                  /\ reactions[ReactionAddress(n, r)].reaction_type = "Like"})
        /\ notes[n].dislikes =
              Cardinality({r \in Keys :
                  /\ ReactionAddress(n, r) \in DOMAIN reactions
                  /\ reactions[ReactionAddress(n, r)].reaction_type = "Dislike"})

C8_Witness ==
    /\ last = [op |-> "change_reaction", err |-> "Ok"]
    /\ \E n \in DOMAIN notes :
          /\ notes[n].likes = 1
          /\ notes[n].dislikes = 1
          /\ \E r \in Keys :
                /\ ReactionAddress(n, r) \in DOMAIN reactions
                /\ reactions[ReactionAddress(n, r)].reaction_type = "None"

\* C9: edit_note by anyone but the stored author, and delete_note by anyone
\* who is neither the stored author nor the stored receiver, fail with
\* NotAuthorized and leave the notes and note_count unchanged.
C9_UnauthorizedIsNotAuthorized ==
    [][/\ \A k \in Keys, n \in NoteAddrs, t \in Titles, c \in Contents :
             (/\ n \in DOMAIN notes
              /\ k # notes[n].author
              /\ last'.op = "edit_note"
              /\ EditNote(k, n, t, c))
             => (last'.err = "NotAuthorized" /\ UNCHANGED store)
       /\ \A k \in Keys, n \in NoteAddrs :
             (/\ n \in DOMAIN notes
              /\ k \notin {notes[n].author, notes[n].receiver}
              /\ last'.op = "delete_note"
              /\ DeleteNote(k, n))
             => (last'.err = "NotAuthorized" /\ UNCHANGED store)]_vars

\* C10: a successful edit_note changes only the title, content and updated_at
\* of its note; every other field, every other note, every Reaction record
\* and Config are unchanged; and a live note's title or content changes only
\* in a successful edit_note.
C10_EditFrame ==
    [][/\ \A k \in Keys, n \in NoteAddrs, t \in Titles, c \in Contents :
             (last' = [op |-> "edit_note", err |-> "Ok"] /\ EditNote(k, n, t, c))
             => /\ DOMAIN notes' = DOMAIN notes
                /\ \A m \in DOMAIN notes \ {n} : notes'[m] = notes[m]
                /\ notes'[n] = [notes[n] EXCEPT !.title = t, !.content = c,
                                                !.updated_at = notes'[n].updated_at]
                /\ notes'[n].updated_at = now
                /\ UNCHANGED <<config, reactions>>
       /\ \A m \in DOMAIN notes \cap DOMAIN notes' :
             (notes'[m].title # notes[m].title \/ notes'[m].content # notes[m].content)
             => last' = [op |-> "edit_note", err |-> "Ok"]]_vars

C10_Witness ==
    /\ last = [op |-> "edit_note", err |-> "Ok"]
    /\ \E n \in DOMAIN notes :
          /\ notes[n].updated_at > notes[n].created_at
          /\ notes[n].likes = 1
          /\ ~NoteSeedsOk(n)
          /\ NumLive = 2

\* C11: a successful change_reaction from stored type old to new_type stores
\* new_type and moves the tallies by exactly -1 on the counter of old and +1
\* on the counter of new_type (nothing for None); old = new_type leaves both
\* tallies as they were.
C11_ChangeTallies ==
    [][\A k \in Keys, n \in ReactNoteAddrs, ra \in ReactReactionAddrs, ty \in ReactionTypes :
          (last' = [op |-> "change_reaction", err |-> "Ok"] /\ ChangeReaction(k, n, ra, ty))
          => LET old == reactions[ra].reaction_type IN
             /\ reactions'[ra].reaction_type = ty
             /\ notes'[n].likes = notes[n].likes
                                    - (IF old = "Like" THEN 1 ELSE 0)
                                    + (IF ty = "Like" THEN 1 ELSE 0)
             /\ notes'[n].dislikes = notes[n].dislikes
                                    - (IF old = "Dislike" THEN 1 ELSE 0)
                                    + (IF ty = "Dislike" THEN 1 ELSE 0)
             /\ old = ty => notes'[n] = notes[n]]_vars

C11_Witness ==
    /\ last = [op |-> "change_reaction", err |-> "Ok"]
    /\ Cardinality(DOMAIN reactions) = 1
    /\ \E n \in DOMAIN notes : notes[n].likes = 0 /\ notes[n].dislikes = 1

\* C12: with Config initialized, send_note fails with CannotSendToSelf when
\* author = receiver, else with TitleTooLong when the title is longer than
\* 50, else with ContentTooLong when the content is longer than 300, each
\* time creating no note and leaving note_count alone; otherwise, on an
\* unoccupied address, it succeeds and stores exactly the given author,
\* receiver, title and content with created_at = updated_at and
\* likes = dislikes = 0.
C12_SendNoteContract ==
    [][\A a \in Senders, r \in Receivers, t \in SendTitles, c \in SendContents :
          (/\ config.initialized
           /\ NoteAddress(a, r, t, c) \notin DOMAIN notes
           /\ last'.op = "send_note"
           /\ SendNote(a, r, t, c))
          => IF a = r
             THEN last'.err = "CannotSendToSelf" /\ UNCHANGED store
             ELSE IF Len(t) > 50
             THEN last'.err = "TitleTooLong" /\ UNCHANGED store
             ELSE IF Len(c) > 300
             THEN last'.err = "ContentTooLong" /\ UNCHANGED store
             ELSE LET note == notes'[NoteAddress(a, r, t, c)] IN
                  /\ last'.err = "Ok"
                  /\ DOMAIN notes' = DOMAIN notes \cup {NoteAddress(a, r, t, c)}
                  /\ note.author = a /\ note.receiver = r
                  /\ note.title = t /\ note.content = c
                  /\ note.created_at = note.updated_at
                  /\ note.likes = 0 /\ note.dislikes = 0]_vars

C12_Witness ==
    /\ last = [op |-> "send_note", err |-> "Ok"]
    /\ \E n \in DOMAIN notes :
          /\ Len(notes[n].title) = 50
          /\ Len(notes[n].content) = 300
          /\ notes[n].created_at = 1
          /\ notes[n].updated_at = 1

\* C13: remove_reaction and change_reaction by reactor r on note n fail when
\* there is no Reaction record for (n, r), and remove_reaction on a live note
\* fails with InvalidReactionType when the record's type is None; each time
\* the tallies and every Reaction record stay as they were and no record is
\* created.
C13_MissingOrNoneReactionFails ==
    [][\A k \in Reactors, n \in NoteAddrs :
          LET ra == ReactionAddress(n, k) IN
          /\ (/\ ra \notin DOMAIN reactions
              /\ last'.op = "remove_reaction"
              /\ RemoveReaction(k, n, ra))
             => (last'.err # "Ok" /\ UNCHANGED store)
          /\ \A ty \in ReactionTypes :
                (/\ ra \notin DOMAIN reactions
                 /\ last'.op = "change_reaction"
                 /\ ChangeReaction(k, n, ra, ty))
                => (last'.err # "Ok" /\ UNCHANGED store)
          /\ (/\ n \in DOMAIN notes
              /\ ra \in DOMAIN reactions
              /\ reactions[ra].reaction_type = "None"
              /\ last'.op = "remove_reaction"
              /\ RemoveReaction(k, n, ra))
             => (last'.err = "InvalidReactionType" /\ UNCHANGED store)]_vars

\* C14: initialize succeeds exactly when Config is absent and then stores the
\* caller as authority with note_count 0; any later initialize fails and
\* leaves Config alone; once Config exists no instruction destroys it or
\* changes its authority.
C14_InitializeOnce ==
    [][/\ \A k \in Keys :
             (last'.op = "initialize" /\ Initialize(k))
             => IF config.initialized
                THEN last'.err # "Ok" /\ UNCHANGED store
                ELSE /\ last'.err = "Ok"
                     /\ config' = [initialized |-> TRUE, authority |-> k,
                                   note_count |-> 0]
       /\ config.initialized
             => (config'.initialized /\ config'.authority = config.authority)]_vars

C14_Witness ==
    /\ last = [op |-> "initialize", err |-> "AccountAlreadyInUse"]
    /\ config.initialized
    /\ config.authority = "B"
    /\ config.note_count = 2

\* C15: underflow guard.  change_reaction or remove_reaction on a Reaction of
\* stored type Like (Dislike) of a live note whose likes (dislikes) is 0
\* fails with InvalidReactionCount and leaves the record and both tallies as
\* they were; no step takes likes or dislikes below 0.
C15_UnderflowGuard ==
    [][/\ \A k \in Reactors, n \in NoteAddrs :
             LET ra == ReactionAddress(n, k) IN
             (/\ n \in DOMAIN notes
              /\ ra \in DOMAIN reactions
              /\ \/ reactions[ra].reaction_type = "Like" /\ notes[n].likes = 0
                 \/ reactions[ra].reaction_type = "Dislike" /\ notes[n].dislikes = 0)
             => /\ (last'.op = "remove_reaction" /\ RemoveReaction(k, n, ra))
                   => (last'.err = "InvalidReactionCount" /\ UNCHANGED store)
                /\ \A ty \in ReactionTypes :
                      (last'.op = "change_reaction" /\ ChangeReaction(k, n, ra, ty))
                      => (last'.err = "InvalidReactionCount" /\ UNCHANGED store)
       /\ \A n \in DOMAIN notes' : notes'[n].likes >= 0 /\ notes'[n].dislikes >= 0]_vars

\* C16: all-or-nothing.  An instruction that fails leaves Config, every note
\* and every Reaction record as they were; in particular react with type
\* None, on a live note by a reactor without a record, fails with
\* InvalidReactionType, allocates no Reaction record and changes no tally.
C16_AllOrNothing ==
    [][/\ (last'.op # "none" /\ last'.err # "Ok") => UNCHANGED store
       /\ \A k \in Reactors, n \in NoteAddrs :
             (/\ n \in DOMAIN notes
              /\ ReactionAddress(n, k) \notin DOMAIN reactions
              /\ last'.op = "react_to_note"
              /\ ReactToNote(k, n, ReactionAddress(n, k), "None"))
             => (last'.err = "InvalidReactionType" /\ UNCHANGED store)]_vars

\* C17: on a Reaction record of type Like or Dislike, remove_reaction and
\* change_reaction with new type None have the same outcome: the same error,
\* or both succeed with the same tallies and the record at None.
C17_RemoveIsChangeToNone ==
    [][\A k \in Reactors, n \in NoteAddrs, ra \in ReactionAddrs :
          (ra \in DOMAIN reactions /\ reactions[ra].reaction_type \in {"Like", "Dislike"})
          => /\ (last'.op = "remove_reaction" /\ RemoveReaction(k, n, ra))
                => /\ last'.err = ChangeReactionResult(k, n, ra, "None")
                   /\ last'.err = "Ok"
                      => /\ notes' = [notes EXCEPT ![n] =
                                        ApplyTally(UndoTally(@, reactions[ra].reaction_type),
                                                   "None")]
                         /\ reactions' = [reactions EXCEPT ![ra].reaction_type = "None"]
             /\ (last'.op = "change_reaction" /\ ChangeReaction(k, n, ra, "None"))
                => /\ last'.err = RemoveReactionResult(k, n, ra)
                   /\ last'.err = "Ok"
                      => /\ notes' = [notes EXCEPT ![n] =
                                        UndoTally(@, reactions[ra].reaction_type)]
                         /\ reactions' = [reactions EXCEPT ![ra].reaction_type = "None"]]_vars

C17_Witness ==
    /\ last = [op |-> "remove_reaction", err |-> "Ok"]
    /\ \E ra \in DOMAIN reactions :
          /\ reactions[ra].reaction_type = "None"
          /\ reactions[ra].note \in DOMAIN notes
          /\ notes[reactions[ra].note].likes = 0
          /\ notes[reactions[ra].note].dislikes = 0

\* C18: there is at most one Reaction record per (note address, reactor);
\* react by a reactor who already has a record for the note (of any type,
\* None included) fails and changes nothing; and the type of a record changes
\* only in a successful change_reaction or remove_reaction called by the
\* record's own reactor on the record's own note.
C18_OneReactionPerReactor ==
    [][/\ \A ra1 \in DOMAIN reactions', ra2 \in DOMAIN reactions' :
             (/\ reactions'[ra1].note = reactions'[ra2].note
              /\ reactions'[ra1].reactor = reactions'[ra2].reactor)
             => ra1 = ra2
       /\ \A k \in Keys, n \in ReactNoteAddrs, ra \in ReactReactionAddrs, ty \in ReactionTypes :
             (/\ ReactionAddress(n, k) \in DOMAIN reactions
              /\ last'.op = "react_to_note"
              /\ ReactToNote(k, n, ra, ty))
             => (last'.err # "Ok" /\ UNCHANGED store)
       /\ \A ra \in DOMAIN reactions :
             reactions'[ra].reaction_type # reactions[ra].reaction_type
             => /\ last'.op \in {"change_reaction", "remove_reaction"}
                /\ last'.err = "Ok"
                /\ \A k \in Keys, n \in ReactNoteAddrs, ra2 \in ReactReactionAddrs :
                      (\/ last'.op = "remove_reaction" /\ RemoveReaction(k, n, ra2)
                       \/ /\ last'.op = "change_reaction"
                          /\ \E ty \in ReactionTypes : ChangeReaction(k, n, ra2, ty))
                      => (/\ k = reactions[ra].reactor
                          /\ n = reactions[ra].note
                          /\ ra2 = ra)]_vars

C18_Witness ==
    /\ last = [op |-> "react_to_note", err |-> "AccountAlreadyInUse"]
    /\ Cardinality(DOMAIN reactions) = 3
    /\ \E ra \in DOMAIN reactions : reactions[ra].reaction_type = "None"

\* C19: delete_note does not cascade.  A successful delete_note removes only
\* its note and takes 1 off note_count; every Reaction record, those that
\* reference the deleted address included, is still there with the same
\* reactor, note reference and type, and every other note is unchanged.
C19_DeleteDoesNotCascade ==
    [][\A k \in Keys, n \in NoteAddrs :
          (last' = [op |-> "delete_note", err |-> "Ok"] /\ DeleteNote(k, n))
          => /\ DOMAIN notes' = DOMAIN notes \ {n}
             /\ n \in DOMAIN notes
             /\ \A m \in DOMAIN notes' : notes'[m] = notes[m]
             /\ config' = [config EXCEPT !.note_count = config.note_count - 1]
             /\ DOMAIN reactions' = DOMAIN reactions
             /\ \A ra \in DOMAIN reactions : reactions'[ra] = reactions[ra]]_vars

C19_Witness ==
    /\ last = [op |-> "delete_note", err |-> "Ok"]
    /\ NumLive = 1
    /\ \E ra \in DOMAIN reactions :
          /\ reactions[ra].note \notin DOMAIN notes
          /\ reactions[ra].reaction_type = "Like"

\* C20: the counters saturate and never wrap.  A successful send_note at
\* note_count = U64_MAX leaves it there and otherwise adds 1; a successful
\* delete_note at note_count = 0 leaves it there and otherwise takes 1 off;
\* react and change_reaction that credit a counter standing at U64_MAX leave
\* it there; and no step moves note_count, likes or dislikes by more than 1
\* or out of 0..U64_MAX.
C20_CountersSaturate ==
    [][/\ config'.note_count \in 0..U64_MAX
       /\ config'.note_count - config.note_count \in {-1, 0, 1}
       /\ last' = [op |-> "send_note", err |-> "Ok"]
             => config'.note_count =
                   (IF config.note_count = U64_MAX THEN U64_MAX
                    ELSE config.note_count + 1)
       /\ last' = [op |-> "delete_note", err |-> "Ok"]
             => config'.note_count =
                   (IF config.note_count = 0 THEN 0 ELSE config.note_count - 1)
       /\ \A n \in DOMAIN notes' :
             /\ notes'[n].likes \in 0..U64_MAX
             /\ notes'[n].dislikes \in 0..U64_MAX
       /\ \A n \in DOMAIN notes \cap DOMAIN notes' :
             /\ notes'[n].likes - notes[n].likes \in {-1, 0, 1}
             /\ notes'[n].dislikes - notes[n].dislikes \in {-1, 0, 1}
             /\ last' = [op |-> "react_to_note", err |-> "Ok"]
                   => /\ notes'[n].likes >= notes[n].likes
                      /\ notes'[n].dislikes >= notes[n].dislikes
       /\ \A k \in SatKeys :
             LET ra == ReactionAddress(SatReactNote, k) IN
             (/\ last' = [op |-> "change_reaction", err |-> "Ok"]
              /\ ChangeReaction(k, SatReactNote, ra, "Like")
              /\ notes[SatReactNote].likes = U64_MAX
              /\ reactions[ra].reaction_type # "Like")
             => notes'[SatReactNote].likes = U64_MAX]_vars

C20_Witness ==
    /\ last = [op |-> "react_to_note", err |-> "Ok"]
    /\ config.note_count = U64_MAX
    /\ NumLive > U64_MAX
    /\ \E n \in DOMAIN notes :
          /\ notes[n].likes = U64_MAX
          /\ Cardinality(LikeRecords(n)) > U64_MAX

====
